---- MODULE Spec2Model ----
(***************************************************************************)
(* Model of silx.io.url.DataUrl (src/silx/io/url.py) and of               *)
(* silx.gui.plot.actions.medfilt.MedianFilterAction                        *)
(* (src/silx/gui/plot/actions/medfilt.py).                                 *)
(*                                                                         *)
(* A Python str is a sequence of one-character strings.  The Python value  *)
(* None is the one-element sequence None (no str has such an element); a   *)
(* data_slice that is None is NoneSlice.  A slice term is a record         *)
(* [k, v]: k = "int" (v its value), "Ellipsis", "slice" (slice(None)) or   *)
(* "other" (a term of any unsupported type).                               *)
(***************************************************************************)
EXTENDS Integers, Sequences, FiniteSets, TLC

VARIABLES args, u, v, hist, act, plot, last, ext

\* The variables of the median filter action and its plot
fvars == <<act, plot, last, ext>>

\* The variables of the DataUrl runs
dvars == <<args, u, v, hist>>

vars == <<args, u, v, hist, act, plot, last, ext>>

----------------------------------------------------------------------------
(* Python values *)

None == <<"<None>">>

NoneSlice == <<[k |-> "None", v |-> 0]>>

IntTerm(n) == [k |-> "int", v |-> n]

EllipsisTerm == [k |-> "Ellipsis", v |-> 0]

FullSlice == [k |-> "slice", v |-> 0]

OtherTerm == [k |-> "other", v |-> 0]

SILX == <<"s", "i", "l", "x">>

FABIO == <<"f", "a", "b", "i", "o">>

DigitChars == {"0", "1", "2", "3", "4", "5", "6", "7", "8", "9"}

DigitVal(c) ==
    CASE c = "0" -> 0 [] c = "1" -> 1 [] c = "2" -> 2 [] c = "3" -> 3
      [] c = "4" -> 4 [] c = "5" -> 5 [] c = "6" -> 6 [] c = "7" -> 7
      [] c = "8" -> 8 [] c = "9" -> 9

DigitChar(d) ==
    CASE d = 0 -> "0" [] d = 1 -> "1" [] d = 2 -> "2" [] d = 3 -> "3"
      [] d = 4 -> "4" [] d = 5 -> "5" [] d = 6 -> "6" [] d = 7 -> "7"
      [] d = 8 -> "8" [] d = 9 -> "9"

----------------------------------------------------------------------------
(* str methods used by the parser *)

RECURSIVE Find(_, _, _)
\* Index of the first occurrence of sep in s at or after i, 0 when there is none.
Find(s, sep, i) ==
    IF i + Len(sep) - 1 > Len(s) THEN 0
    ELSE IF SubSeq(s, i, i + Len(sep) - 1) = sep THEN i
    ELSE Find(s, sep, i + 1)

\* s.split(sep, 1)
Split1(s, sep) ==
    LET i == Find(s, sep, 1)
    IN  IF i = 0 THEN <<s>>
        ELSE <<SubSeq(s, 1, i - 1), SubSeq(s, i + Len(sep), Len(s))>>

RECURSIVE SplitAll(_, _)
\* s.split(sep)
SplitAll(s, sep) ==
    LET i == Find(s, sep, 1)
    IN  IF i = 0 THEN <<s>>
        ELSE <<SubSeq(s, 1, i - 1)>> \o SplitAll(SubSeq(s, i + Len(sep), Len(s)), sep)

\* s.startswith(p)
StartsWith(s, p) == Len(s) >= Len(p) /\ SubSeq(s, 1, Len(p)) = p

RECURSIVE LStrip(_)
LStrip(s) == IF s # <<>> /\ Head(s) = " " THEN LStrip(Tail(s)) ELSE s

RECURSIVE RStrip(_)
RStrip(s) ==
    IF s # <<>> /\ s[Len(s)] = " " THEN RStrip(SubSeq(s, 1, Len(s) - 1)) ELSE s

RECURSIVE ScanDigits(_, _, _)
\* The digits of an int literal, left to right: acc is the value so far, prev
\* says whether the previous character was a digit (an underscore is allowed
\* only between two digits).  ok is FALSE where int() raises ValueError.
ScanDigits(s, acc, prev) ==
    IF s = <<>> THEN [ok |-> prev, v |-> acc]
    ELSE IF Head(s) \in DigitChars
         THEN ScanDigits(Tail(s), 10 * acc + DigitVal(Head(s)), TRUE)
    ELSE IF Head(s) = "_" /\ prev THEN ScanDigits(Tail(s), acc, FALSE)
    ELSE [ok |-> FALSE, v |-> 0]

\* int(string) for a str argument, base 10
int(string) ==
    LET t    == RStrip(LStrip(string))
        neg  == t # <<>> /\ Head(t) = "-"
        body == IF t # <<>> /\ Head(t) \in {"-", "+"} THEN Tail(t) ELSE t
        r    == ScanDigits(body, 0, FALSE)
    IN  [ok |-> r.ok, v |-> IF neg THEN 0 - r.v ELSE r.v]

RECURSIVE NatToStr(_)
NatToStr(n) ==
    IF n < 10 THEN <<DigitChar(n)>>
    ELSE NatToStr(n \div 10) \o <<DigitChar(n % 10)>>

\* str(n) for an int
str(n) == IF n < 0 THEN <<"-">> \o NatToStr(0 - n) ELSE NatToStr(n)

----------------------------------------------------------------------------
(* DataUrl *)

\* An instance before __init__ has run.
NoObj ==
    [st |-> "new", file_path |-> None, data_path |-> None, data_slice |-> NoneSlice,
     scheme |-> None, path |-> None, is_valid |-> FALSE, stop |-> "none"]

\* __check_validity with the silx rule cut short: a data path without a slice
\* is refused
check_validity_silx_short(file_path, data_path, data_slice, scheme) ==
    IF file_path \in {None, <<>>} THEN FALSE
    ELSE IF scheme = None THEN TRUE
    ELSE IF scheme = FABIO THEN data_path = None
    ELSE IF scheme = SILX THEN data_path = None /\ data_slice = NoneSlice
    ELSE FALSE

\* __check_validity with the fabio rule taken from silx
check_validity_fabio_as_silx(file_path, data_path, data_slice, scheme) ==
    IF file_path \in {None, <<>>} THEN FALSE
    ELSE IF scheme = None THEN TRUE
    ELSE IF scheme \in {FABIO, SILX}
         THEN (data_path = None /\ data_slice = NoneSlice) \/ data_path # None
    ELSE FALSE

\* __check_validity with an unrecognized scheme treated as no scheme
check_validity_any_scheme(file_path, data_path, data_slice, scheme) ==
    IF file_path \in {None, <<>>} THEN FALSE
    ELSE IF scheme = FABIO THEN data_path = None
    ELSE IF scheme = SILX
         THEN (data_path = None /\ data_slice = NoneSlice) \/ data_path # None
    ELSE TRUE

\* __check_validity testing file_path against None only
check_validity_none_only(file_path, data_path, data_slice, scheme) ==
    IF file_path = None THEN FALSE
    ELSE IF scheme = None THEN TRUE
    ELSE IF scheme = FABIO THEN data_path = None
    ELSE IF scheme = SILX
         THEN (data_path = None /\ data_slice = NoneSlice) \/ data_path # None
    ELSE FALSE


\* DataUrl.__check_validity: the value it stores in __is_valid
check_validity(file_path, data_path, data_slice, scheme) ==
    IF file_path \in {None, <<>>} THEN FALSE
    ELSE IF scheme = None THEN TRUE
    ELSE IF scheme = FABIO THEN data_path = None
    ELSE IF scheme = SILX
         THEN (data_path = None /\ data_slice = NoneSlice) \/ data_path # None
    ELSE FALSE

\* str_to_slice with the ValueError of int() swallowed: a term that is no
\* integer becomes 0
str_to_slice_unchecked(string) ==
    IF string = <<".", ".", ".">> THEN [ok |-> TRUE, term |-> EllipsisTerm]
    ELSE IF string = <<":">> THEN [ok |-> TRUE, term |-> FullSlice]
    ELSE [ok |-> TRUE, term |-> IntTerm(0)]


\* str_to_slice with the two markers exchanged
str_to_slice_swapped(string) ==
    IF string = <<".", ".", ".">> THEN [ok |-> TRUE, term |-> FullSlice]
    ELSE IF string = <<":">> THEN [ok |-> TRUE, term |-> EllipsisTerm]
    ELSE LET r == int(string)
         IN  [ok |-> r.ok, term |-> IntTerm(r.v)]


\* str_to_slice of __parse_from_path; ok is FALSE where it raises ValueError
str_to_slice(string) ==
    IF string = <<".", ".", ".">> THEN [ok |-> TRUE, term |-> EllipsisTerm]
    ELSE IF string = <<":">> THEN [ok |-> TRUE, term |-> FullSlice]
    ELSE LET r == int(string)
         IN  [ok |-> r.ok, term |-> IntTerm(r.v)]

\* scheme detection with "<" for "<=": a two-character prefix is a scheme
scheme_and_file_lt(elements0) ==
    LET scheme_and_filepath == Split1(elements0, <<":">>)
    IN  IF Len(scheme_and_filepath) = 2
        THEN IF Len(scheme_and_filepath[1]) < 2
             THEN [scheme |-> None, file_path |-> elements0]
             ELSE [scheme |-> scheme_and_filepath[1],
                   file_path |-> scheme_and_filepath[2]]
        ELSE [scheme |-> None, file_path |-> scheme_and_filepath[1]]


\* __parse_from_path, lines 121-135: the scheme and the file part
scheme_and_file(elements0) ==
    LET scheme_and_filepath == Split1(elements0, <<":">>)
    IN  IF Len(scheme_and_filepath) = 2
        THEN IF Len(scheme_and_filepath[1]) <= 2
             THEN [scheme |-> None, file_path |-> elements0]
             ELSE [scheme |-> scheme_and_filepath[1],
                   file_path |-> scheme_and_filepath[2]]
        ELSE [scheme |-> None, file_path |-> scheme_and_filepath[1]]

\* the marker stripped without the Windows drive test: "/" always put back
strip_marker_posix_only(file_path) ==
    IF StartsWith(file_path, <<"/", "/", "/">>)
    THEN <<"/">> \o SubSeq(file_path, 4, Len(file_path))
    ELSE file_path


\* __parse_from_path, lines 137-145: the absolute-path marker
strip_marker(file_path) ==
    IF StartsWith(file_path, <<"/", "/", "/">>)
    THEN LET r == SubSeq(file_path, 4, Len(file_path))
         IN  IF Len(r) > 2 /\ (r[2] = ":" \/ r[3] = ":") THEN r ELSE <<"/">> \o r
    ELSE file_path

\* __parse_from_path, lines 147-170: data_path, data_slice and where the
\* selector parsing returned early ("bracket": line 163, "term": line 170)
parse_selector(elements) ==
    IF Len(elements) = 1
    THEN [data_path |-> None, data_slice |-> NoneSlice, stop |-> "none"]
    ELSE LET selectors == Split1(elements[2], <<"[">>)
             data_path == IF Len(selectors[1]) = 0 THEN None ELSE selectors[1]
         IN  IF Len(selectors) = 2
             THEN LET data_slice == Split1(selectors[2], <<"]">>)
                  IN  IF Len(data_slice) < 2 \/ data_slice[2] # <<>>
                      THEN [data_path |-> data_path, data_slice |-> NoneSlice,
                            stop |-> "bracket"]
                      ELSE LET items == SplitAll(data_slice[1], <<",">>)
                               terms == [i \in 1..Len(items) |-> str_to_slice(items[i])]
                           IN  IF \A i \in 1..Len(items) : terms[i].ok
                               THEN [data_path |-> data_path,
                                     data_slice |-> [i \in 1..Len(items) |-> terms[i].term],
                                     stop |-> "none"]
                               ELSE [data_path |-> data_path, data_slice |-> NoneSlice,
                                     stop |-> "term"]
             ELSE [data_path |-> data_path, data_slice |-> NoneSlice, stop |-> "none"]

\* DataUrl.__parse_from_path on an instance whose __is_valid is False
parse_from_path(path) ==
    LET elements == Split1(path, <<":", ":">>)
        sf       == scheme_and_file(elements[1])
        fp       == strip_marker(sf.file_path)
        sel      == parse_selector(elements)
    IN  [st |-> "built", file_path |-> fp, data_path |-> sel.data_path,
         data_slice |-> sel.data_slice, scheme |-> sf.scheme, path |-> path,
         is_valid |-> IF sel.stop = "none"
                      THEN check_validity(fp, sel.data_path, sel.data_slice, sf.scheme)
                      ELSE FALSE,
         stop |-> sel.stop]

\* __init__ leaving out __check_validity for an instance built from components
DataUrl_unchecked(a) ==
    IF a.path # None
    THEN IF a.file_path = None /\ a.data_path = None /\ a.data_slice = NoneSlice
            /\ a.scheme = None
         THEN parse_from_path(a.path)
         ELSE [NoObj EXCEPT !.st = "AssertionError"]
    ELSE [st |-> "built", file_path |-> a.file_path, data_path |-> a.data_path,
          data_slice |-> a.data_slice, scheme |-> a.scheme, path |-> None,
          is_valid |-> FALSE, stop |-> "none"]


\* __init__ without the asserts: with a path, the other arguments are not used
DataUrl_path_wins(a) ==
    IF a.path # None
    THEN parse_from_path(a.path)
    ELSE [st |-> "built", file_path |-> a.file_path, data_path |-> a.data_path,
          data_slice |-> a.data_slice, scheme |-> a.scheme, path |-> None,
          is_valid |-> check_validity(a.file_path, a.data_path, a.data_slice, a.scheme),
          stop |-> "none"]


\* DataUrl.__init__; st = "AssertionError" when an assert of lines 77-80 fails
DataUrl(a) ==
    IF a.path # None
    THEN IF a.file_path = None /\ a.data_path = None /\ a.data_slice = NoneSlice
            /\ a.scheme = None
         THEN parse_from_path(a.path)
         ELSE [NoObj EXCEPT !.st = "AssertionError"]
    ELSE [st |-> "built", file_path |-> a.file_path, data_path |-> a.data_path,
          data_slice |-> a.data_slice, scheme |-> a.scheme, path |-> None,
          is_valid |-> check_validity(a.file_path, a.data_path, a.data_slice, a.scheme),
          stop |-> "none"]

\* is_absolute without the branch for a file path of length 2
is_absolute_long_only(file_path) ==
    IF file_path = None THEN [exc |-> "TypeError", val |-> FALSE]
    ELSE IF Len(file_path) > 0 /\ file_path[1] = "/" THEN [exc |-> "none", val |-> TRUE]
    ELSE IF Len(file_path) > 2
         THEN [exc |-> "none", val |-> file_path[2] = ":" \/ file_path[3] = ":"]
    ELSE [exc |-> "none", val |-> FALSE]


\* DataUrl.is_absolute; exc = "TypeError" where len(None) raises
is_absolute(file_path) ==
    IF file_path = None THEN [exc |-> "TypeError", val |-> FALSE]
    ELSE IF Len(file_path) > 0 /\ file_path[1] = "/" THEN [exc |-> "none", val |-> TRUE]
    ELSE IF Len(file_path) > 2
         THEN [exc |-> "none", val |-> file_path[2] = ":" \/ file_path[3] = ":"]
    ELSE IF Len(file_path) > 1 THEN [exc |-> "none", val |-> file_path[2] = ":"]
    ELSE [exc |-> "none", val |-> FALSE]

\* slice_to_string of DataUrl.path, for a term of a supported type
slice_to_string(term) ==
    IF term.k = "Ellipsis" THEN <<".", ".", ".">>
    ELSE IF term.k = "slice" THEN <<":">>
    ELSE str(term.v)

RECURSIVE Join(_, _)
\* sep.join(items)
Join(items, sep) ==
    IF items = <<>> THEN <<>>
    ELSE IF Len(items) = 1 THEN items[1]
    ELSE items[1] \o sep \o Join(Tail(items), sep)

\* path() prefixing scheme + "://" to every absolute path, a drive-letter
\* path included
compose_path_two_slashes(o) ==
    LET base     == IF o.file_path # None THEN o.file_path ELSE <<>>
        sel1     == IF o.data_path # None THEN o.data_path ELSE <<>>
        selector == IF o.data_slice # NoneSlice
                    THEN sel1 \o <<"[">>
                         \o Join([i \in 1..Len(o.data_slice) |->
                                     slice_to_string(o.data_slice[i])], <<",">>)
                         \o <<"]">>
                    ELSE sel1
        p        == IF selector # <<>> THEN base \o <<":", ":">> \o selector ELSE base
    IN  IF o.scheme # None
        THEN IF is_absolute(o.file_path).val
             THEN o.scheme \o <<":", "/", "/">> \o p
             ELSE o.scheme \o <<":">> \o p
        ELSE p


\* DataUrl.path, lines 199-220: the string rebuilt from the fields
compose_path(o) ==
    LET base     == IF o.file_path # None THEN o.file_path ELSE <<>>
        sel1     == IF o.data_path # None THEN o.data_path ELSE <<>>
        selector == IF o.data_slice # NoneSlice
                    THEN sel1 \o <<"[">>
                         \o Join([i \in 1..Len(o.data_slice) |->
                                     slice_to_string(o.data_slice[i])], <<",">>)
                         \o <<"]">>
                    ELSE sel1
        p        == IF selector # <<>> THEN base \o <<":", ":">> \o selector ELSE base
    IN  IF o.scheme # None
        THEN IF is_absolute(o.file_path).val
             THEN IF StartsWith(p, <<"/">>)
                  THEN o.scheme \o <<":", "/", "/">> \o p
                  ELSE o.scheme \o <<":", "/", "/", "/">> \o p
             ELSE o.scheme \o <<":">> \o p
        ELSE p

\* path() rebuilding the string of a parsed instance instead of returning
\* the string it was parsed from
path_rebuilt(o) ==
    IF o.data_slice # NoneSlice
       /\ \E i \in 1..Len(o.data_slice) : o.data_slice[i].k = "other"
    THEN [exc |-> "TypeError", val |-> <<>>]
    ELSE IF o.scheme # None /\ is_absolute(o.file_path).exc # "none"
         THEN [exc |-> "TypeError", val |-> <<>>]
    ELSE [exc |-> "none", val |-> compose_path(o)]


\* path() rendering a term of any type with str() instead of raising
path_any_term(o) ==
    IF o.path # None THEN [exc |-> "none", val |-> o.path]
    ELSE IF o.scheme # None /\ is_absolute(o.file_path).exc # "none"
         THEN [exc |-> "TypeError", val |-> <<>>]
    ELSE [exc |-> "none", val |-> compose_path(o)]


\* DataUrl.path; exc = "TypeError" where slice_to_string or is_absolute raises
path(o) ==
    IF o.path # None THEN [exc |-> "none", val |-> o.path]
    ELSE IF o.data_slice # NoneSlice
            /\ \E i \in 1..Len(o.data_slice) : o.data_slice[i].k = "other"
         THEN [exc |-> "TypeError", val |-> <<>>]
    ELSE IF o.scheme # None /\ is_absolute(o.file_path).exc # "none"
         THEN [exc |-> "TypeError", val |-> <<>>]
    ELSE [exc |-> "none", val |-> compose_path(o)]

\* The public methods of an instance, by name: what a call returns or raises
call(op, o) ==
    CASE op = "is_valid"    -> [op |-> op, exc |-> "none", val |-> o.is_valid]
      [] op = "path"        -> [op |-> op, exc |-> path(o).exc, val |-> path(o).val]
      [] op = "is_absolute" -> [op |-> op, exc |-> is_absolute(o.file_path).exc,
                                val |-> is_absolute(o.file_path).val]
      [] op = "file_path"   -> [op |-> op, exc |-> "none", val |-> o.file_path]
      [] op = "data_path"   -> [op |-> op, exc |-> "none", val |-> o.data_path]
      [] op = "data_slice"  -> [op |-> op, exc |-> "none", val |-> o.data_slice]
      [] op = "scheme"      -> [op |-> op, exc |-> "none", val |-> o.scheme]

\* path() keeping the file path it starts from in __path
after_call_caching(op, o) ==
    IF op = "path" /\ o.path = None /\ o.file_path # None
    THEN [o EXCEPT !.path = o.file_path]
    ELSE o


\* The fields of an instance after the method op has run on it: no method
\* of lines 174-269 assigns an attribute
after_call(op, o) == o

----------------------------------------------------------------------------
(* Inputs *)

\* Longest file part drawn character by character
MaxFile == 6

\* Most pieces of a selector drawn piece by piece
MaxSel == 4

\* Most public method calls made on one instance
MaxCalls == 3

\* Longest file path given as a component to the runs that call the methods
MaxAbs == 3

\* All sequences over S of length at most n
Seqs(S, n) == UNION {[1..k -> S] : k \in 0..n}

RECURSIVE Flat(_)
Flat(ss) == IF ss = <<>> THEN <<>> ELSE Head(ss) \o Flat(Tail(ss))

\* Constructor arguments: DataUrl(path=p)
PathArg(p) ==
    [path |-> p, file_path |-> None, data_path |-> None, data_slice |-> NoneSlice,
     scheme |-> None]

\* Constructor arguments: DataUrl(file_path=.., data_path=.., data_slice=.., scheme=..)
CompArg(fp, dp, ds, sc) ==
    [path |-> None, file_path |-> fp, data_path |-> dp, data_slice |-> ds, scheme |-> sc]

\* silx:///data/image.h5::/data/dataset[1,5]
ExSilxSlice ==
    <<"s", "i", "l", "x", ":", "/", "/", "/", "d", "a", "t", "a", "/", "i",
    "m", "a", "g", "e", ".", "h", "5", ":", ":", "/", "d", "a", "t", "a",
    "/", "d", "a", "t", "a", "s", "e", "t", "[", "1", ",", "5", "]">>

\* fabio:///data/image.edf::[2]
ExFabioSlice ==
    <<"f", "a", "b", "i", "o", ":", "/", "/", "/", "d", "a", "t", "a", "/",
    "i", "m", "a", "g", "e", ".", "e", "d", "f", ":", ":", "[", "2", "]">>

\* silx:///data/image.h5::[2]
ExSilxNoPath ==
    <<"s", "i", "l", "x", ":", "/", "/", "/", "d", "a", "t", "a", "/", "i",
    "m", "a", "g", "e", ".", "h", "5", ":", ":", "[", "2", "]">>

\* ./foo/bar/image.edf
ExRelative ==
    <<".", "/", "f", "o", "o", "/", "b", "a", "r", "/", "i", "m", "a", "g",
    "e", ".", "e", "d", "f">>

\* C:/data/
ExDrive ==
    <<"C", ":", "/", "d", "a", "t", "a", "/">>

\* silx:///f.h5::/d[1,x]
ExBadTerm ==
    <<"s", "i", "l", "x", ":", "/", "/", "/", "f", ".", "h", "5", ":", ":",
    "/", "d", "[", "1", ",", "x", "]">>

\* fabio:///C:/data/image.edf::[2]
ExFabioDrive ==
    <<"f", "a", "b", "i", "o", ":", "/", "/", "/", "C", ":", "/", "d", "a",
    "t", "a", "/", "i", "m", "a", "g", "e", ".", "e", "d", "f", ":", ":",
    "[", "2", "]">>

\* silx:./image.h5
ExSilxRel ==
    <<"s", "i", "l", "x", ":", ".", "/", "i", "m", "a", "g", "e", ".", "h",
    "5">>

\* a::a[-1,+02, 1_0 ,...,:]
ExSignedTerms ==
    <<"a", ":", ":", "a", "[", "-", "1", ",", "+", "0", "2", ",", " ", "1",
    "_", "0", " ", ",", ".", ".", ".", ",", ":", "]">>

\* a::a[1__0]
ExBadUnderscore ==
    <<"a", ":", ":", "a", "[", "1", "_", "_", "0", "]">>

\* silx:a::a[-]
ExBadSign ==
    <<"s", "i", "l", "x", ":", "a", ":", ":", "a", "[", "-", "]">>

Examples ==
    {ExSilxSlice, ExFabioSlice, ExSilxNoPath, ExRelative, ExDrive, ExBadTerm,
     ExFabioDrive, ExSilxRel, ExSignedTerms, ExBadUnderscore, ExBadSign}

Heads == {<<>>, SILX \o <<":">>, FABIO \o <<":">>}

FileChars == {"/", ":", "a"}

BasicSels ==
    {<<>>, <<":", ":", "[", "1", "]">>, <<":", ":", "a", "[", "1", "]">>,
     <<":", ":", "a", "[", "x", "]">>}

SelHeads == Heads \cup {<<"a", "a", "a", ":">>}

SelChunks == {<<"[">>, <<"]">>, <<",">>, <<".", ".", ".">>, <<":">>, <<"1">>, <<"a">>}

\* scheme, file part and marker: every short file part after every head
HeadFileInputs ==
    {h \o f \o s : h \in Heads, f \in Seqs(FileChars, MaxFile), s \in BasicSels}

\* selectors: every short sequence of selector pieces after "a::"
SelInputs ==
    {h \o <<"a", ":", ":">> \o Flat(cs) : h \in SelHeads, cs \in Seqs(SelChunks, MaxSel)}

ParseInputs == {PathArg(p) : p \in HeadFileInputs \cup SelInputs \cup Examples}

CompSchemes == {None, SILX, FABIO, <<"a", "a", "a">>, <<>>}

CompFiles ==
    {None, <<>>, <<"a">>, <<"/", "a">>, <<"a", ":">>, <<"C", ":", "/", "a">>,
     <<"/", "/", "/", "a">>}

CompDataPaths == {None, <<>>, <<"/", "d">>}

CompSlices ==
    {NoneSlice, <<>>, <<IntTerm(1)>>, <<EllipsisTerm, FullSlice, IntTerm(0 - 12)>>,
     <<IntTerm(2), OtherTerm>>}

CompInputs ==
    {CompArg(fp, dp, ds, sc) :
        fp \in CompFiles, dp \in CompDataPaths, ds \in CompSlices, sc \in CompSchemes}

\* A path given together with a component
MixedInputs ==
    {[PathArg(<<"a">>) EXCEPT !.scheme = SILX],
     [PathArg(ExSilxRel) EXCEPT !.file_path = <<"a">>],
     [PathArg(<<"a">>) EXCEPT !.data_path = <<"/", "d">>],
     [PathArg(<<"a">>) EXCEPT !.data_slice = <<IntTerm(1)>>]}

Inputs == ParseInputs \cup CompInputs \cup MixedInputs

\* Inputs of the runs that build two instances
PairInputs ==
    {PathArg(h \o <<"a">> \o s) : h \in SelHeads, s \in BasicSels \cup
        {<<":", ":", "a">>, <<":", ":", "a", "[">>, <<":", ":", "[", "1", "]", "a">>,
         <<":", ":", "[", "]">>}}
    \cup {CompArg(fp, dp, ds, sc) :
            fp \in {None, <<>>, <<"a">>}, dp \in {None, <<>>, <<"a">>},
            ds \in {NoneSlice, <<>>, <<IntTerm(1)>>}, sc \in CompSchemes}

\* Inputs of the runs that call the public methods
CallInputs ==
    {PathArg(p) : p \in Examples}
    \cup {CompArg(fp, dp, ds, sc) :
            fp \in {None, <<"a">>, <<"/", "a">>}, dp \in {None, <<"/", "d">>},
            ds \in {NoneSlice, <<IntTerm(1)>>, <<IntTerm(2), OtherTerm>>},
            sc \in {None, SILX}}
    \cup {CompArg(fp, None, NoneSlice, None) : fp \in Seqs(FileChars, MaxAbs)}

Ops == {"is_valid", "path", "is_absolute", "file_path", "data_path", "data_slice", "scheme"}

----------------------------------------------------------------------------
(* MedianFilterAction and the plot it operates on *)

\* A legend that is None
NoLegend == "<None>"

Legends == {"A", "B"}

\* An image that is None.  An image is a record: src names the data it was
\* made from, pass counts the median filters applied to it, kernel and
\* conditional are the arguments of the last one.
NoImage == [src |-> "<None>", pass |-> 0, kernel |-> <<0, 0>>, conditional |-> FALSE]

\* An image as the user of the plot supplies it
Raw(s) == [src |-> s, pass |-> 0, kernel |-> <<0, 0>>, conditional |-> FALSE]

Sources == {"x", "y"}

KernelWidths == {3, 5}

Kinds == {"base", "1D", "2D"}

\* Most median filters applied on top of one another
MaxPass == 2

\* silx.math.medianfilter.medfilt2d: a new image
medfilt2d(image, kernel_size, conditional) ==
    [src |-> image.src, pass |-> image.pass + 1, kernel |-> kernel_size,
     conditional |-> conditional]

\* A plot without image; slots counts the connections of _updateActiveImage
\* to sigActiveImageChanged
EmptyPlot == [images |-> [l \in Legends |-> NoImage], active |-> NoLegend, slots |-> 0]

\* plot.getActiveImage(just_legend=True)
plot_getActiveImage(p) == p.active

\* plot.getImage(legend).getData(copy=False)
plot_getImage(p, legend) == p.images[legend]

\* plot.addImage(data=data, legend=legend, replace=True): the image replaces
\* every image of the plot and is the active one
plot_addImage(p, data, legend) ==
    [p EXCEPT !.images = [l \in Legends |-> IF l = legend THEN data ELSE NoImage],
              !.active = legend]

\* plot.sigActiveImageChanged.connect(self._updateActiveImage)
connect(p) == [p EXCEPT !.slots = @ + 1]

\* plot.sigActiveImageChanged.disconnect(self._updateActiveImage)
disconnect(p) == [p EXCEPT !.slots = @ - 1]

\* A MedianFilterAction before __init__ has run
NoAction ==
    [st |-> "new", kind |-> "base", originalImage |-> NoImage, legend |-> NoLegend,
     filteredImage |-> NoImage, activeImageLegend |-> NoLegend]

\* MedianFilterAction._updateActiveImage
updateActiveImage(a, p) ==
    IF plot_getActiveImage(p) = NoLegend
    THEN [a EXCEPT !.activeImageLegend = NoLegend, !.originalImage = NoImage,
                   !.legend = NoLegend]
    ELSE [a EXCEPT !.activeImageLegend = plot_getActiveImage(p),
                   !.originalImage = plot_getImage(p, plot_getActiveImage(p)),
                   !.legend = plot_getActiveImage(p)]

\* The plot emits sigActiveImageChanged: the slot runs if it is connected
emit(a, p) == IF p.slots > 0 THEN updateActiveImage(a, p) ELSE a

\* _computeFilteredImage of MedianFilterAction (raises NotImplementedError),
\* MedianFilter1DAction and MedianFilter2DAction
computeFilteredImage(a, kernelWidth, conditional) ==
    IF a.kind = "base" THEN [exc |-> "NotImplementedError", val |-> NoImage]
    ELSE IF a.kind = "1D"
         THEN [exc |-> "none",
               val |-> medfilt2d(a.originalImage, <<kernelWidth, 1>>, conditional)]
    ELSE [exc |-> "none",
          val |-> medfilt2d(a.originalImage, <<kernelWidth, kernelWidth>>, conditional)]

\* _updateFilter leaving the slot connected while it adds the image
updateFilter_connected(a, p, kernelWidth, conditional, emits) ==
    IF a.originalImage = NoImage THEN [act |-> a, plot |-> p, exc |-> "none"]
    ELSE LET f == computeFilteredImage(a, kernelWidth, conditional)
         IN  IF f.exc # "none" THEN [act |-> a, plot |-> p, exc |-> f.exc]
             ELSE LET p2 == plot_addImage(p, f.val, a.legend)
                  IN  [act |-> IF emits THEN emit(a, p2) ELSE a, plot |-> p2,
                       exc |-> "none"]

\* MedianFilterAction._updateFilter; emits says whether addImage makes the
\* plot emit sigActiveImageChanged.  exc is the exception that leaves the
\* method: the one of _computeFilteredImage, or the one of disconnect when
\* the slot is not connected.
updateFilter(a, p, kernelWidth, conditional, emits) ==
    IF a.originalImage = NoImage THEN [act |-> a, plot |-> p, exc |-> "none"]
    ELSE IF p.slots = 0 THEN [act |-> a, plot |-> p, exc |-> "TypeError"]
    ELSE LET p1 == disconnect(p)
             f  == computeFilteredImage(a, kernelWidth, conditional)
         IN  IF f.exc # "none" THEN [act |-> a, plot |-> p1, exc |-> f.exc]
             ELSE LET p2 == plot_addImage(p1, f.val, a.legend)
                  IN  [act |-> IF emits THEN emit(a, p2) ELSE a, plot |-> connect(p2),
                       exc |-> "none"]

\* MedianFilterAction.getFilteredImage
getFilteredImage(a) == a.filteredImage

\* No call yet
NoCall == [op |-> "none", exc |-> "none", val |-> NoImage]

\* What the last change of the active image made from outside left active,
\* and whether every _updateFilter so far returned normally
NoExt == [legend |-> NoLegend, image |-> NoImage, normal |-> TRUE]

\* No median filter action in the run
FilterIdle == act = NoAction /\ plot = EmptyPlot /\ last = NoCall /\ ext = NoExt

----------------------------------------------------------------------------
(* Actions *)

Init == args \in Inputs /\ u = NoObj /\ v = NoObj /\ hist = <<>> /\ FilterIdle

InitPair == args \in PairInputs /\ u = NoObj /\ v = NoObj /\ hist = <<>> /\ FilterIdle

InitCalls == args \in CallInputs /\ u = NoObj /\ v = NoObj /\ hist = <<>> /\ FilterIdle

\* u = DataUrl(**args)
Construct ==
    /\ u.st = "new"
    /\ u' = DataUrl(args)
    /\ UNCHANGED <<args, v, hist>>
    /\ UNCHANGED fvars

\* v = DataUrl(path=u.path())
Reparse ==
    /\ u.st = "built"
    /\ v.st = "new"
    /\ v' = IF path(u).exc = "none" THEN DataUrl(PathArg(path(u).val))
            ELSE [NoObj EXCEPT !.st = path(u).exc]
    /\ UNCHANGED <<args, u, hist>>
    /\ UNCHANGED fvars

\* v = DataUrl(**a) for some other arguments a
ConstructOther ==
    /\ u.st = "built"
    /\ v.st = "new"
    /\ \E a \in PairInputs : v' = DataUrl(a)
    /\ UNCHANGED <<args, u, hist>>
    /\ UNCHANGED fvars

\* u.<op>() for a public method op
Call ==
    /\ u.st = "built"
    /\ Len(hist) < MaxCalls
    /\ \E op \in Ops :
          /\ hist' = Append(hist, call(op, u))
          /\ u' = after_call(op, u)
    /\ UNCHANGED <<args, v>>
    /\ UNCHANGED fvars

Next == Construct \/ Reparse

NextPair == Construct \/ ConstructOther

NextCalls == Construct \/ Call

Spec == Init /\ [][Next]_vars

SpecPair == InitPair /\ [][NextPair]_vars

SpecCalls == InitCalls /\ [][NextCalls]_vars

----------------------------------------------------------------------------
(* Actions of the median filter action *)

\* The plots an action is created on: empty, or with one active image
InitialPlots ==
    {EmptyPlot} \cup
    {[EmptyPlot EXCEPT !.images[l] = Raw(s), !.active = l] : l \in Legends, s \in Sources}

InitFilter ==
    /\ args = PathArg(<<>>) /\ u = NoObj /\ v = NoObj /\ hist = <<>>
    /\ act = NoAction
    /\ plot \in InitialPlots
    /\ last = NoCall
    /\ ext = NoExt

\* MedianFilterAction.__init__ (of the class itself or of a subclass)
NewAction ==
    /\ act.st = "new"
    /\ \E kind \in Kinds :
          act' = updateActiveImage([NoAction EXCEPT !.st = "built", !.kind = kind],
                                   connect(plot))
    /\ plot' = connect(plot)
    /\ last' = [NoCall EXCEPT !.op = "__init__"]
    /\ ext' = [legend |-> plot.active,
               image |-> IF plot.active = NoLegend THEN NoImage
                         ELSE plot.images[plot.active],
               normal |-> TRUE]
    /\ UNCHANGED dvars

\* The user of the plot makes another image the active one, or removes the
\* images; the plot emits sigActiveImageChanged
ActiveImageChanged ==
    /\ act.st = "built"
    /\ \E l \in Legends \cup {NoLegend}, s \in Sources :
          LET p == IF l = NoLegend
                   THEN [plot EXCEPT !.images = [k \in Legends |-> NoImage],
                                     !.active = NoLegend]
                   ELSE [plot EXCEPT !.images[l] = Raw(s), !.active = l]
          IN  /\ plot' = p
              /\ act' = emit(act, p)
              /\ ext' = [ext EXCEPT !.legend = l,
                                    !.image = IF l = NoLegend THEN NoImage ELSE Raw(s)]
    /\ last' = [NoCall EXCEPT !.op = "sigActiveImageChanged"]
    /\ UNCHANGED dvars

\* The dialog emits sigFilterOptChanged: _updateFilter(kernelWidth, conditional)
UpdateFilter ==
    /\ act.st = "built"
    /\ act.originalImage.pass < MaxPass
    /\ \E kernelWidth \in KernelWidths, conditional \in BOOLEAN, emits \in BOOLEAN :
          LET r == updateFilter(act, plot, kernelWidth, conditional, emits)
          IN  /\ act' = r.act
              /\ plot' = r.plot
              /\ last' = [NoCall EXCEPT !.op = "_updateFilter", !.exc = r.exc]
              /\ ext' = [ext EXCEPT !.normal = @ /\ r.exc = "none"]
    /\ UNCHANGED dvars

\* getFilteredImage()
GetFilteredImage ==
    /\ act.st = "built"
    /\ last' = [op |-> "getFilteredImage", exc |-> "none", val |-> getFilteredImage(act)]
    /\ UNCHANGED <<act, plot, ext>>
    /\ UNCHANGED dvars

NextFilter == NewAction \/ ActiveImageChanged \/ UpdateFilter \/ GetFilteredImage

SpecFilter == InitFilter /\ [][NextFilter]_vars

----------------------------------------------------------------------------
(* Vocabulary of the properties: positions in a string, stated with       *)
(* quantifiers over indices rather than by scanning                        *)

\* The positions where sep occurs in s
Occ(s, sep) == {i \in 1..(Len(s) - Len(sep) + 1) : SubSeq(s, i, i + Len(sep) - 1) = sep}

\* The positions after position b where sep occurs in s
OccAfter(s, sep, b) == {i \in Occ(s, sep) : i > b}

Least(S) == CHOOSE i \in S : \A j \in S : i <= j

\* u was built by DataUrl(path=args.path)
Parsed ==
    /\ u.st = "built"
    /\ args.path # None

HasSelector == Occ(args.path, <<":", ":">>) # {}

\* The input before its first "::" (all of it when there is none)
FirstSegment ==
    IF HasSelector
    THEN SubSeq(args.path, 1, Least(Occ(args.path, <<":", ":">>)) - 1)
    ELSE args.path

\* The input after its first "::"
SelectorPart ==
    SubSeq(args.path, Least(Occ(args.path, <<":", ":">>)) + 2, Len(args.path))

HasBracket == HasSelector /\ Occ(SelectorPart, <<"[">>) # {}

OpenAt == Least(Occ(SelectorPart, <<"[">>))

IsClosed == HasBracket /\ OccAfter(SelectorPart, <<"]">>, OpenAt) # {}

CloseAt == Least(OccAfter(SelectorPart, <<"]">>, OpenAt))

\* The text between the first "[" and the first "]" after it
Bracketed == SubSeq(SelectorPart, OpenAt + 1, CloseAt - 1)

\* The comma-separated items of s, by position: each lies between two
\* neighbouring cuts, a cut being a comma or an end of s
Cuts(s) == {0, Len(s) + 1} \cup Occ(s, <<",">>)

ItemSpans(s) ==
    {pq \in Cuts(s) \X Cuts(s) :
        pq[1] < pq[2] /\ \A r \in Cuts(s) : ~(pq[1] < r /\ r < pq[2])}

Item(s, pq) == SubSeq(s, pq[1] + 1, pq[2] - 1)

\* The number of commas of s before position p: the 0-based index of the
\* item that starts after the cut p
ItemIndex(s, p) == Cardinality({c \in Occ(s, <<",">>) : c <= p})

\* t is an integer literal: an optional sign, then digits, single underscores
\* allowed between digits, blanks allowed around the whole
IsIntLiteral(t) ==
    \E lo, hi \in 1..Len(t) :
        /\ lo <= hi
        /\ \A i \in 1..Len(t) : (i < lo \/ i > hi) => t[i] = " "
        /\ LET d == IF t[lo] \in {"+", "-"} THEN lo + 1 ELSE lo
           IN  /\ d <= hi
               /\ t[d] \in DigitChars
               /\ t[hi] \in DigitChars
               /\ \A i \in d..hi : t[i] \in DigitChars \cup {"_"}
               /\ \A i \in d..(hi - 1) : ~(t[i] = "_" /\ t[i + 1] = "_")

IsTerm(t) == t = <<".", ".", ".">> \/ t = <<":">> \/ IsIntLiteral(t)

----------------------------------------------------------------------------
(* C1 *)

\* Some "[" of the selector has no "]" after it
UnclosedBracket ==
    /\ HasBracket
    /\ \E i \in Occ(SelectorPart, <<"[">>) : OccAfter(SelectorPart, <<"]">>, i) = {}

\* Something follows the first "]" of the selector
TrailingAfterFirstClose ==
    /\ HasSelector
    /\ Occ(SelectorPart, <<"]">>) # {}
    /\ Least(Occ(SelectorPart, <<"]">>)) < Len(SelectorPart)

\* Something follows the first "]" that comes after the first "["
TrailingAfterBracket == IsClosed /\ CloseAt < Len(SelectorPart)

\* An item between the brackets is neither "...", ":" nor an integer
BadTerm ==
    /\ IsClosed
    /\ \E pq \in ItemSpans(Bracketed) : ~IsTerm(Item(Bracketed, pq))

\* C1 as stated: a parsed input whose selector has an unclosed "[", or any
\* character after its first "]", or a bad bracket term, gives an instance
\* that is not valid.
C1_AsStated ==
    (Parsed /\ (UnclosedBracket \/ TrailingAfterFirstClose \/ BadTerm))
        => ~u.is_valid

\* C1 amended: a parsed input whose selector has an unclosed "[", or any
\* character after the first "]" that follows the first "[", or a bad bracket
\* term, gives an instance (no exception) that is not valid, whatever the
\* scheme.
C1_MalformedSelectorInvalid ==
    (args.path # None /\ args = PathArg(args.path) /\ u.st # "new"
     /\ (UnclosedBracket \/ TrailingAfterBracket \/ BadTerm))
        => (u.st = "built" /\ ~u.is_valid)

\* A silx URL with a data path whose second bracket term is a letter was parsed
C1_Witness ==
    /\ Parsed
    /\ args.path = ExBadTerm
    /\ BadTerm /\ ~UnclosedBracket /\ ~TrailingAfterBracket
    /\ u.scheme = SILX /\ u.data_path # None
    /\ ~u.is_valid

----------------------------------------------------------------------------
(* C2 *)

SameFields(a, b) ==
    /\ a.scheme = b.scheme
    /\ a.file_path = b.file_path
    /\ a.data_path = b.data_path
    /\ a.data_slice = b.data_slice

\* C2 as stated: two instances with equal scheme, file_path, data_path and
\* data_slice have equal is_valid.
C2_AsStated ==
    (u.st = "built" /\ v.st = "built" /\ SameFields(u, v)) => u.is_valid = v.is_valid

\* C2 amended: two instances, neither of which had its parsing stopped by a
\* malformed selector, with equal scheme, file_path, data_path and data_slice
\* have equal is_valid.
C2_ValidityFromFields ==
    (u.st = "built" /\ v.st = "built" /\ u.stop = "none" /\ v.stop = "none"
     /\ SameFields(u, v))
        => u.is_valid = v.is_valid

\* A parsed silx URL and a component-built one with the same four fields
C2_Witness ==
    /\ u.st = "built" /\ v.st = "built"
    /\ u.path # None /\ v.path = None
    /\ SameFields(u, v)
    /\ u.scheme = SILX /\ u.data_path # None
    /\ u.is_valid /\ v.is_valid

----------------------------------------------------------------------------
(* C3 *)

\* C3: when a parsed instance u is valid, DataUrl(path=u.path()) has the
\* same scheme, file_path, data_path, data_slice and is_valid as u.
C3_RoundTrip ==
    (Parsed /\ u.is_valid /\ v.st # "new")
        => (v.st = "built" /\ SameFields(u, v) /\ v.is_valid = u.is_valid)

\* The silx example with a data path and a slice was parsed, then parsed again
C3_Witness ==
    /\ Parsed /\ u.is_valid
    /\ args.path = ExSilxSlice
    /\ v.st = "built" /\ v.is_valid
    /\ v.data_slice = <<IntTerm(1), IntTerm(5)>>

----------------------------------------------------------------------------
(* C4 - C7 *)

\* No selector, or a selector whose parsing ran to its end
SelectorOk ==
    \/ args.path = None
    \/ ~HasSelector
    \/ ~(UnclosedBracket \/ TrailingAfterBracket \/ BadTerm)

HasFile(o) == o.file_path # None /\ Len(o.file_path) >= 1

\* C4: with scheme "silx", a non-empty file_path and a selector parsed
\* without error, is_valid is True exactly when data_path is not None or
\* data_slice is None.
C4_SilxValidity ==
    (u.st = "built" /\ u.scheme = SILX /\ HasFile(u) /\ SelectorOk)
        => (u.is_valid <=> (u.data_path # None \/ u.data_slice = NoneSlice))

\* The silx example with a slice and no data path was parsed: not valid
C4_Witness ==
    /\ Parsed /\ SelectorOk
    /\ args.path = ExSilxNoPath
    /\ u.scheme = SILX /\ HasFile(u)
    /\ u.data_path = None /\ u.data_slice = <<IntTerm(2)>>
    /\ ~u.is_valid

\* C5: with scheme "fabio", a non-empty file_path and a selector parsed
\* without error, is_valid is True exactly when data_path is None, whether
\* or not there is a data_slice.
C5_FabioValidity ==
    (u.st = "built" /\ u.scheme = FABIO /\ HasFile(u) /\ SelectorOk)
        => (u.is_valid <=> u.data_path = None)

\* The fabio example with a slice was parsed: valid
C5_Witness ==
    /\ Parsed /\ SelectorOk
    /\ args.path = ExFabioSlice
    /\ u.scheme = FABIO /\ HasFile(u)
    /\ u.data_path = None /\ u.data_slice = <<IntTerm(2)>>
    /\ u.is_valid

\* C6: an instance whose scheme is a string other than "silx" and "fabio"
\* is not valid.
C6_UnknownSchemeInvalid ==
    (u.st = "built" /\ u.scheme \notin {None, SILX, FABIO}) => ~u.is_valid

\* A URL with scheme "aaa", a file path and a well-formed selector was parsed
C6_Witness ==
    /\ Parsed /\ SelectorOk
    /\ u.scheme = <<"a", "a", "a">> /\ HasFile(u)
    /\ u.data_path # None /\ u.data_slice # NoneSlice
    /\ ~u.is_valid

\* C7: a valid instance has a file_path of length at least 1; a None or
\* empty file_path makes the instance not valid.
C7_ValidHasFile == (u.st = "built" /\ u.is_valid) => HasFile(u)

\* An instance without scheme was built from components with file_path ""
C7_Witness ==
    /\ u.st = "built" /\ args.path = None
    /\ u.file_path = <<>> /\ u.scheme = None
    /\ ~u.is_valid

----------------------------------------------------------------------------
(* C8 *)

\* C8: no public method changes a field, and a method called again returns
\* (or raises) what it did on its first call.
C8_Immutable ==
    u.st = "built"
        => /\ u = DataUrl(args)
           /\ \A i, j \in 1..Len(hist) : hist[i].op = hist[j].op => hist[i] = hist[j]

\* path(), is_absolute() and path() again were called on a component-built
\* instance with a scheme, a file path and a data path
C8_Witness ==
    /\ u.st = "built" /\ args.path = None
    /\ u.scheme = SILX /\ HasFile(u) /\ u.data_path # None
    /\ Len(hist) = 3
    /\ hist[1].op = "path" /\ hist[1].exc = "none"
    /\ hist[2].op = "is_absolute"
    /\ hist[3].op = "path"

----------------------------------------------------------------------------
(* C9, C10 *)

SchemeColons == Occ(FirstSegment, <<":">>)

\* The first segment has a ":" with more than two characters before it
HasScheme == SchemeColons # {} /\ Least(SchemeColons) - 1 > 2

ExpectedScheme ==
    IF HasScheme THEN SubSeq(FirstSegment, 1, Least(SchemeColons) - 1) ELSE None

ExpectedFilePart ==
    IF HasScheme
    THEN SubSeq(FirstSegment, Least(SchemeColons) + 1, Len(FirstSegment))
    ELSE FirstSegment

HasMarker ==
    /\ Len(ExpectedFilePart) >= 3
    /\ \A i \in 1..3 : ExpectedFilePart[i] = "/"

AfterMarker == SubSeq(ExpectedFilePart, 4, Len(ExpectedFilePart))

\* C9: with no ":" before the first "::", or at most two characters before
\* the first ":", scheme is None and the file part is the whole first
\* segment; otherwise scheme is the text before the first ":" and the file
\* part is the text after it.  (The file part shows in file_path: as it is
\* without the "///" marker, and else without the marker, with or without
\* a "/" put back.)
C9_SchemeDetection ==
    Parsed
        => /\ u.scheme = ExpectedScheme
           /\ IF HasMarker
              THEN u.file_path \in {AfterMarker, <<"/">> \o AfterMarker}
              ELSE u.file_path = ExpectedFilePart

\* An input with exactly two characters before its first ":" was parsed
C9_Witness ==
    /\ Parsed
    /\ SchemeColons # {} /\ Least(SchemeColons) = 3
    /\ u.scheme = None
    /\ u.file_path = FirstSegment

\* C10: when the file part starts with "///", file_path is the remainder r
\* if len(r) > 2 and r has ":" at index 1 or 2, and "/" + r otherwise; when
\* it does not, file_path is the file part unchanged.
C10_AbsoluteMarker ==
    Parsed
        => u.file_path =
              IF HasMarker
              THEN IF Len(AfterMarker) > 2 /\ (AfterMarker[2] = ":" \/ AfterMarker[3] = ":")
                   THEN AfterMarker
                   ELSE <<"/">> \o AfterMarker
              ELSE ExpectedFilePart

\* A URL with a scheme, the marker and a drive letter was parsed
C10_Witness ==
    /\ Parsed
    /\ HasScheme /\ HasMarker
    /\ Len(AfterMarker) > 2 /\ AfterMarker[2] = ":"
    /\ u.file_path = AfterMarker

----------------------------------------------------------------------------
(* C11 *)

RECURSIVE Pow10(_)
Pow10(n) == IF n = 0 THEN 1 ELSE 10 * Pow10(n - 1)

RECURSIVE SumOver(_, _, _)
\* The sum over the positions P of t of each digit times its weight: ten to
\* the number of digits after it
SumOver(P, t, D) ==
    IF P = {} THEN 0
    ELSE LET i == Least(P)
         IN  DigitVal(t[i]) * Pow10(Cardinality({j \in D : j > i}))
             + SumOver(P \ {i}, t, D)

DigitPositions(t) == {i \in 1..Len(t) : t[i] \in DigitChars}

\* The value of the integer literal t
LiteralValue(t) ==
    LET m == SumOver(DigitPositions(t), t, DigitPositions(t))
    IN  IF Occ(t, <<"-">>) # {} THEN 0 - m ELSE m

\* The slice term the item t stands for
ExpectedTerm(t) ==
    IF t = <<".", ".", ".">> THEN EllipsisTerm
    ELSE IF t = <<":">> THEN FullSlice
    ELSE IntTerm(LiteralValue(t))

\* The selector before its first "[" (all of it when there is none)
DataPathText ==
    IF HasBracket THEN SubSeq(SelectorPart, 1, OpenAt - 1) ELSE SelectorPart

WellFormedBracket == IsClosed /\ ~TrailingAfterBracket /\ ~BadTerm

\* C11: with a "::" in the input, data_path is the text between the first
\* "::" and the first "[" after it (or the end), None when that text is
\* empty; a well-formed bracket gives data_slice one term per comma-separated
\* item, in input order; with no "::" or no "[", data_slice is None.
C11_SelectorParsing ==
    Parsed
        => /\ HasSelector
                => u.data_path = (IF DataPathText = <<>> THEN None ELSE DataPathText)
           /\ (~HasSelector \/ ~HasBracket) => u.data_slice = NoneSlice
           /\ (HasSelector /\ WellFormedBracket)
                => /\ u.data_slice # NoneSlice
                   /\ Len(u.data_slice) = Cardinality(ItemSpans(Bracketed))
                   /\ \A pq \in ItemSpans(Bracketed) :
                         u.data_slice[ItemIndex(Bracketed, pq[1]) + 1]
                            = ExpectedTerm(Item(Bracketed, pq))

\* A URL with a data path and the five terms -1, +02, " 1_0 ", "..." and ":"
\* was parsed
C11_Witness ==
    /\ Parsed
    /\ args.path = ExSignedTerms
    /\ WellFormedBracket
    /\ u.data_path = <<"a">>
    /\ u.data_slice
         = <<IntTerm(0 - 1), IntTerm(2), IntTerm(10), EllipsisTerm, FullSlice>>

----------------------------------------------------------------------------
(* C12 *)

\* The arguments give a path and at least one component
PathWithComponent ==
    /\ args.path # None
    /\ \/ args.file_path # None
       \/ args.data_path # None
       \/ args.data_slice # NoneSlice
       \/ args.scheme # None

----------------------------------------------------------------------------
(* C13, C14 *)

\* The calls of the method op made so far
CallsOf(op) == {i \in 1..Len(hist) : hist[i].op = op}

\* file_path starts with "/", or is longer than 2 with ":" at index 1 or 2,
\* or has length 2 with ":" at index 1 (indices from 0)
ExpectedAbsolute(fp) ==
    \/ \E i \in 1..Len(fp) : i = 1 /\ fp[i] = "/"
    \/ Len(fp) > 2 /\ \E i \in {2, 3} : fp[i] = ":"
    \/ Len(fp) = 2 /\ fp[2] = ":"

\* C13: is_absolute() returns True exactly when file_path starts with "/",
\* or has length > 2 and ":" at index 1 or 2, or has length 2 and ":" at
\* index 1; it returns False for every other string, the empty one included.
C13_IsAbsolute ==
    (u.st = "built" /\ u.file_path # None)
        => \A i \in CallsOf("is_absolute") :
              hist[i].exc = "none" /\ (hist[i].val <=> ExpectedAbsolute(u.file_path))

\* is_absolute() was called on an instance whose file_path is "a:"
C13_Witness ==
    /\ u.st = "built"
    /\ u.file_path = <<"a", ":">>
    /\ CallsOf("is_absolute") # {}
    /\ hist[1].op = "is_absolute" /\ hist[1].val

HasOtherTerm(o) ==
    /\ o.data_slice # NoneSlice
    /\ \E i \in 1..Len(o.data_slice) :
          o.data_slice[i].k \notin {"int", "slice", "Ellipsis"}

\* C14: path() of a component-built instance whose data_slice has a term
\* that is no integer, full-range marker or ellipsis marker signals an error
\* instead of returning a string.
C14_UnsupportedTermRaises ==
    (u.st = "built" /\ args.path = None /\ HasOtherTerm(u))
        => \A i \in CallsOf("path") : hist[i].exc = "TypeError"

\* path() was called on an instance without scheme, with a file path and the
\* slice (2, <unsupported>)
C14_Witness ==
    /\ u.st = "built" /\ args.path = None
    /\ u.scheme = None /\ HasFile(u)
    /\ u.data_slice = <<IntTerm(2), OtherTerm>>
    /\ CallsOf("path") # {}
    /\ hist[1].op = "path" /\ hist[1].exc = "TypeError"

----------------------------------------------------------------------------
(* C16 *)

\* u was built from components and v = DataUrl(path=u.path()) was built:
\* v.path is the string u.path() returned
Serialized ==
    /\ u.st = "built"
    /\ args.path = None
    /\ v.st = "built"

\* The decimal text of n: the sign, then the digits without a leading zero
\* whose weights sum to n
Decimal(n) ==
    LET m == IF n < 0 THEN 0 - n ELSE n
        d == CHOOSE t \in Seqs(DigitChars, 2) :
                /\ t # <<>>
                /\ Len(t) > 1 => t[1] # "0"
                /\ LiteralValue(t) = m
    IN  IF n < 0 THEN <<"-">> \o d ELSE d

TermText(t) ==
    IF t.k = "Ellipsis" THEN <<".", ".", ".">>
    ELSE IF t.k = "slice" THEN <<":">>
    ELSE Decimal(t.v)

RECURSIVE TermsText(_)
\* The texts of the terms, a comma before each but the first
TermsText(ds) ==
    IF ds = <<>> THEN <<>>
    ELSE TermsText(SubSeq(ds, 1, Len(ds) - 1))
         \o (IF Len(ds) > 1 THEN <<",">> ELSE <<>>)
         \o TermText(ds[Len(ds)])

ExpectedSelector(o) ==
    (IF o.data_path # None THEN o.data_path ELSE <<>>)
    \o (IF o.data_slice # NoneSlice
        THEN <<"[">> \o TermsText(o.data_slice) \o <<"]">>
        ELSE <<>>)

ExpectedBody(o) ==
    (IF o.file_path # None THEN o.file_path ELSE <<>>)
    \o (IF ExpectedSelector(o) # <<>> THEN <<":", ":">> \o ExpectedSelector(o) ELSE <<>>)

ExpectedPrefix(o) ==
    IF o.scheme = None THEN <<>>
    ELSE IF ExpectedAbsolute(o.file_path)
         THEN IF ExpectedBody(o)[1] = "/"
              THEN o.scheme \o <<":", "/", "/">>
              ELSE o.scheme \o <<":", "/", "/", "/">>
    ELSE o.scheme \o <<":">>

\* C16: the string path() returns for a component-built instance is
\* file_path, then "::" and the selector when the selector is not empty
\* (data_path if present, then "[" + comma-joined terms + "]" if data_slice
\* is present), prefixed, if scheme is present, with scheme + "://" when
\* absolute and starting with "/", scheme + ":///" when absolute and not
\* starting with "/", scheme + ":" when not absolute.
C16_SerializerOutput ==
    Serialized => v.path = ExpectedPrefix(u) \o ExpectedBody(u)

\* A silx instance with a drive-letter file path, a data path and the slice
\* (..., :, -12) was serialized
C16_Witness ==
    /\ Serialized
    /\ u.scheme = SILX
    /\ u.file_path = <<"C", ":", "/", "a">>
    /\ u.data_path = <<"/", "d">>
    /\ u.data_slice = <<EllipsisTerm, FullSlice, IntTerm(0 - 12)>>
    /\ v.path = <<"s", "i", "l", "x", ":", "/", "/", "/", "C", ":", "/", "a", ":", ":",
                  "/", "d", "[", ".", ".", ".", ",", ":", ",", "-", "1", "2", "]">>

----------------------------------------------------------------------------
(* C17, C18 *)

\* file_path has no ":" other than one at index 1 (from 0), and so no "::"
PlainFilePath(fp) ==
    /\ fp # None
    /\ \A i \in Occ(fp, <<":">>) : i = 2
    /\ Occ(fp, <<":", ":">>) = {}

\* C17: a valid instance built from components, with scheme None, "silx" or
\* "fabio", a file_path without ":" other than a drive-letter colon at index
\* 1, a data_path (if any) that is not empty and has no "[", and a data_slice
\* (if any) that is a non-empty tuple of supported terms, gives by
\* DataUrl(path=u.path()) a valid instance with the same four fields.
C17_ComponentRoundTrip ==
    (/\ u.st = "built" /\ args.path = None /\ u.is_valid
     /\ u.scheme \in {None, SILX, FABIO}
     /\ PlainFilePath(u.file_path)
     /\ u.data_path # None => (u.data_path # <<>> /\ Occ(u.data_path, <<"[">>) = {})
     /\ u.data_slice # NoneSlice => (u.data_slice # <<>> /\ ~HasOtherTerm(u))
     /\ v.st # "new")
        => (v.st = "built" /\ SameFields(u, v) /\ v.is_valid)

\* C18: path() of a component-built instance whose data_slice is None or
\* has only supported terms returns a string without raising, also when the
\* instance is invalid with file_path None or empty and a scheme.
C18_PathTotal ==
    (u.st = "built" /\ args.path = None /\ ~HasOtherTerm(u))
        => \A i \in CallsOf("path") : hist[i].exc = "none"

----------------------------------------------------------------------------
(* C15, C19: MedianFilterAction *)

\* The action is built and the image the plot shows under its legend is a
\* filtered one
FilteredOnPlot ==
    /\ act.st = "built"
    /\ act.legend # NoLegend
    /\ plot.images[act.legend].pass > 0

\* C15: when _updateFilter has run with an original image that is not None
\* and has added the filtered image to the plot, getFilteredImage() returns
\* that filtered image.
C15_FilteredImageReturned ==
    (last.op = "getFilteredImage" /\ FilteredOnPlot)
        => last.val = plot.images[act.legend]

\* Every _updateFilter so far returned normally, and what the action holds is
\* what the last change of the active image from outside left active, the
\* slot being connected exactly once
KeepsOriginal ==
    (act.st = "built" /\ ext.normal)
        => /\ act.originalImage = ext.image
           /\ act.legend = ext.legend
           /\ plot.slots = 1

\* _updateFilter with _originalImage None changes neither the action nor the
\* plot
NoneIsNoOp ==
    (last'.op = "_updateFilter" /\ act.originalImage = NoImage)
        => (act' = act /\ plot' = plot /\ last'.exc = "none")

\* C19: after any sequence of _updateFilter calls that return normally,
\* _originalImage and _legend are the ones captured by the last change of the
\* active image made from outside and _updateActiveImage is connected to
\* sigActiveImageChanged exactly once; with _originalImage None,
\* _updateFilter changes nothing.
C19_KeepsOriginal == []KeepsOriginal /\ [][NoneIsNoOp]_vars

\* A normal _updateFilter has put a filtered image on the plot, addImage
\* having replaced the image the action filters
C19_Witness ==
    /\ last.op = "_updateFilter"
    /\ last.exc = "none"
    /\ ext.normal
    /\ FilteredOnPlot
    /\ act.originalImage # NoImage
    /\ act.originalImage.pass = 0
    /\ act.originalImage = ext.image
    /\ plot.images[act.legend] # act.originalImage
    /\ plot.slots = 1

====
